---- MODULE Spec2Model ----
(***************************************************************************)
(* Model of extract_dataset_metadata.py: read_split_tables, build_manifest, *)
(* audio_duration_ms and main.                                              *)
(*                                                                          *)
(* Text (paths, CSV cells) is a sequence of one-character strings, so that  *)
(* strip(), replace(), suffix, lower() and float() are computed, not        *)
(* assumed. The characters are ASCII and the white space of Python up to    *)
(* U+1680. A float is the double float() returns, held as an odd mantissa   *)
(* and a power of two; a duration is held as the reduced fraction           *)
(* frames*1000/rate.                                                        *)
(***************************************************************************)
EXTENDS Naturals, Integers, Sequences, FiniteSets, TLC

VARIABLES
    tables,      \* input: split_dir, split name -> [exists, header, rows]
    tree,        \* input: entries root.rglob("*") yields, in traversal order
    sfInstalled, \* input: whether `import soundfile` succeeds
    out0,        \* input: content of args.out before the run (Absent or lines)
    pc,          \* position in main
    tIdx,        \* read_split_tables: index of the table in SplitNames
    rIdx,        \* read_split_tables: index of the next data row
    mapping,     \* read_split_tables: the lookup being built / split_map
    merged,      \* history: positions <<table, row>> of the rows merged
    idx,         \* build_manifest: index in tree of the next entry
    outDir,      \* whether args.out.parent.mkdir has run
    opened,      \* whether args.out.open("w") has run
    outFile,     \* content of args.out (Absent or sequence of records)
    outSrc,      \* history: tree index that produced each line of outFile
    nWritten,    \* main: n_written
    stderr,      \* messages printed to sys.stderr
    probed,      \* history: tree indices audio_duration_ms was called for
    err          \* exception that ended the run, or NoErr

vars == <<tables, tree, sfInstalled, out0, pc, tIdx, rIdx, mapping, merged, idx,
          outDir, opened, outFile, outSrc, nWritten, stderr, probed, err>>

inputs == <<tables, tree, sfInstalled, out0>>

----------------------------------------------------------------------------
(* Bounds of the model *)

MaxRows == 2      \* data rows over the three tables (SpecRead)
MaxFiles == 3     \* entries in the audio tree (Spec)

----------------------------------------------------------------------------
(* Text helpers *)

Absent == "Absent"
\* reader.fieldnames of a file without any line (None): a marker that is no
\* list of column names
NoHeader == <<"(None)">>
NoErr == "NoErr"
NoneCell == <<"None">>

\* characters str.strip() removes: U+0009..U+000D, U+001C..U+001F, U+0020,
\* U+0085, U+00A0, U+1680
Whitespace ==
    {"\t", "\n", "", "\f", "\r", "", "", "", "", " ", "", " ", " "}

\* characters float() removes around the literal: the same without
\* U+001C..U+001F
FloatWhitespace ==
    {"\t", "\n", "", "\f", "\r", " ", "", " ", " "}

Digits == {"0", "1", "2", "3", "4", "5", "6", "7", "8", "9"}

UpperLetters ==
    <<"A", "B", "C", "D", "E", "F", "G", "H", "I", "J", "K", "L", "M",
      "N", "O", "P", "Q", "R", "S", "T", "U", "V", "W", "X", "Y", "Z">>

LowerLetters ==
    <<"a", "b", "c", "d", "e", "f", "g", "h", "i", "j", "k", "l", "m",
      "n", "o", "p", "q", "r", "s", "t", "u", "v", "w", "x", "y", "z">>

LowerMap ==
    [c \in {UpperLetters[i] : i \in 1..Len(UpperLetters)} |->
        LowerLetters[CHOOSE i \in 1..Len(UpperLetters) : UpperLetters[i] = c]]

\* str.lower() on one character
LowerChar(c) == IF c \in DOMAIN LowerMap THEN LowerMap[c] ELSE c

Lower(s) == [i \in 1..Len(s) |-> LowerChar(s[i])]

\* s from its first character outside W on
LStripOf(s, W) ==
    IF s = <<>> \/ s[1] \notin W THEN s
    ELSE IF \A i \in 1..Len(s) : s[i] \in W THEN <<>>
    ELSE SubSeq(s, CHOOSE i \in 1..Len(s) :
                        s[i] \notin W /\ \A j \in 1..(i - 1) : s[j] \in W,
                Len(s))

\* s up to its last character outside W
RStripOf(s, W) ==
    IF s = <<>> \/ s[Len(s)] \notin W THEN s
    ELSE IF \A i \in 1..Len(s) : s[i] \in W THEN <<>>
    ELSE SubSeq(s, 1, CHOOSE i \in 1..Len(s) :
                        s[i] \notin W /\ \A j \in (i + 1)..Len(s) : s[j] \in W)

LStrip(s) == LStripOf(s, Whitespace)

RStrip(s) == RStripOf(s, Whitespace)

\* str.strip()
Strip(s) == RStrip(LStrip(s))

\* str.replace("\\", "/")
ReplaceBackslash(s) == [i \in 1..Len(s) |-> IF s[i] = "\\" THEN "/" ELSE s[i]]

\* rel_path = row["stimuli"].strip().replace("\\", "/")
Normalize(s) == ReplaceBackslash(Strip(s))

\* mutant: the key is taken as written in the table
RowKey_Raw(cell) == cell

RowKey(cell) == Normalize(cell)

DotPositions(s) == {i \in 1..Len(s) : s[i] = "."}

\* digits of the text, underscores left out
IsDigit(c) == c \in Digits

OnlyDigits(s) == SelectSeq(s, IsDigit)

\* digits, with single underscores between digits only
IsDigitPart(s) ==
    /\ s # <<>>
    /\ s[1] \in Digits /\ s[Len(s)] \in Digits
    /\ \A i \in 1..Len(s) : s[i] \in Digits \cup {"_"}
    /\ \A i \in 1..(Len(s) - 1) : ~(s[i] = "_" /\ s[i + 1] = "_")

HasSign(s) == s # <<>> /\ s[1] \in {"+", "-"}

Unsigned(s) == IF HasSign(s) THEN Tail(s) ELSE s

FloatNames ==
    {<<"i", "n", "f">>, <<"i", "n", "f", "i", "n", "i", "t", "y">>, <<"n", "a", "n">>}

ExpPositions(s) == {i \in 1..Len(s) : s[i] \in {"e", "E"}}

\* the literal split in mantissa and exponent text
Mantissa(u) ==
    IF ExpPositions(u) = {} THEN u
    ELSE SubSeq(u, 1, (CHOOSE i \in ExpPositions(u) : TRUE) - 1)

Exponent(u) ==
    IF ExpPositions(u) = {} THEN <<>>
    ELSE SubSeq(u, (CHOOSE i \in ExpPositions(u) : TRUE) + 1, Len(u))

IntPart(m) ==
    IF DotPositions(m) = {} THEN m
    ELSE SubSeq(m, 1, (CHOOSE i \in DotPositions(m) : TRUE) - 1)

FracPart(m) ==
    IF DotPositions(m) = {} THEN <<>>
    ELSE SubSeq(m, (CHOOSE i \in DotPositions(m) : TRUE) + 1, Len(m))

\* [sign] digits [ "." digits ] [ e [sign] digits ], a digit before or after
\* the dot
IsNumber(u) ==
    LET m == Mantissa(u)
    IN  /\ Cardinality(ExpPositions(u)) <= 1
        /\ Cardinality(DotPositions(m)) <= 1
        /\ IntPart(m) = <<>> \/ IsDigitPart(IntPart(m))
        /\ FracPart(m) = <<>> \/ IsDigitPart(FracPart(m))
        /\ IntPart(m) \o FracPart(m) # <<>>
        /\ ExpPositions(u) # {} => IsDigitPart(Unsigned(Exponent(u)))

\* float(x) returns: white space around is dropped, then a number, or inf,
\* infinity, nan in any case, each with an optional sign
FloatOK(x) ==
    LET u == Unsigned(RStripOf(LStripOf(x, FloatWhitespace), FloatWhitespace))
    IN  Lower(u) \in FloatNames \/ IsNumber(u)

\* Natural numbers of any size, for the rounding float() does: limbs in base
\* 10^4, most significant first, no leading zero limb (<<>> is 0)
Base == 10000

Zeros(n) == [i \in 1..n |-> 0]

BigNorm(a) ==
    IF \A i \in 1..Len(a) : a[i] = 0 THEN <<>>
    ELSE SubSeq(a, CHOOSE i \in 1..Len(a) :
                        a[i] # 0 /\ \A j \in 1..(i - 1) : a[j] = 0,
                Len(a))

BigLess(a, b) ==
    \/ Len(a) < Len(b)
    \/ /\ Len(a) = Len(b)
       /\ \E i \in 1..Len(a) : a[i] < b[i] /\ \A j \in 1..(i - 1) : a[j] = b[j]

\* x + y for limb sequences of one length whose sum has that length: the
\* carry into a limb comes from the nearest lower limb whose sum is not
\* Base - 1
BigPlus(x, y) ==
    LET n == Len(x)
        carry(i) ==
            /\ \E j \in (i + 1)..n : x[j] + y[j] # Base - 1
            /\ LET j == CHOOSE j \in (i + 1)..n :
                            /\ x[j] + y[j] # Base - 1
                            /\ \A t \in (i + 1)..(j - 1) : x[t] + y[t] = Base - 1
               IN  x[j] + y[j] >= Base
    IN  [i \in 1..n |-> (x[i] + y[i] + (IF carry(i) THEN 1 ELSE 0)) % Base]

\* a * k + c, for k and c below Base
BigTimes(a, k, c) ==
    LET n == Len(a)
        p(i) == a[i] * k + (IF i = n THEN c ELSE 0)
    IN  IF n = 0 THEN (IF c = 0 THEN <<>> ELSE <<c>>)
        ELSE BigNorm(BigPlus([i \in 1..(n + 1) |-> IF i = 1 THEN 0 ELSE p(i - 1) % Base],
                             [i \in 1..(n + 1) |-> IF i = n + 1 THEN 0 ELSE p(i) \div Base]))

\* a - b, for a not below b
BigMinus(a, b) ==
    LET n == Len(a)
        d(i) == a[i] - (IF i > n - Len(b) THEN b[i - (n - Len(b))] ELSE 0)
        borrow(i) ==
            /\ \E j \in (i + 1)..n : d(j) # 0
            /\ LET j == CHOOSE j \in (i + 1)..n :
                            d(j) # 0 /\ \A t \in (i + 1)..(j - 1) : d(t) = 0
               IN  d(j) < 0
    IN  BigNorm([i \in 1..n |-> (d(i) - (IF borrow(i) THEN 1 ELSE 0) + Base) % Base])

\* the largest c in lo..hi with c * m not above r
RECURSIVE QuotSearch(_, _, _, _)
QuotSearch(r, m, lo, hi) ==
    IF lo = hi THEN lo
    ELSE LET mid == (lo + hi + 1) \div 2
         IN  IF BigLess(r, BigTimes(m, mid, 0))
             THEN QuotSearch(r, m, lo, mid - 1)
             ELSE QuotSearch(r, m, mid, hi)

\* long division: q and r are the quotient and remainder of the first i
\* limbs of n by m
RECURSIVE DivStep(_, _, _, _, _)
DivStep(n, m, i, q, r) ==
    IF i = Len(n) THEN <<q, r>>
    ELSE LET r1 == BigNorm(Append(r, n[i + 1]))
             c == QuotSearch(r1, m, 0, Base - 1)
         IN  DivStep(n, m, i + 1, BigNorm(Append(q, c)),
                     BigMinus(r1, BigTimes(m, c, 0)))

\* quotient and remainder of n by m, m above 0; the limbs of n fewer than
\* those of m are below m
BigDivMod(n, m) ==
    LET i == IF Len(n) < Len(m) THEN Len(n) ELSE Len(m) - 1
    IN  DivStep(n, m, i, <<>>, SubSeq(n, 1, i))

Pow13 == 8192

BigTimes26(a) == BigTimes(BigTimes(a, Pow13, 0), Pow13, 0)

BigTimes52(a) == BigTimes26(BigTimes26(a))

BigTimes53(a) == BigTimes(BigTimes52(a), 2, 0)

\* n / m * 2^q unchanged, until n / m is below 2^53; m53 is m * 2^53
RECURSIVE ScaleDown(_, _, _, _)
ScaleDown(n, m, m53, q) ==
    IF ~BigLess(n, BigTimes26(m53))
    THEN ScaleDown(n, BigTimes26(m), BigTimes26(m53), q + 26)
    ELSE IF ~BigLess(n, m53)
    THEN ScaleDown(n, BigTimes(m, 2, 0), BigTimes(m53, 2, 0), q + 1)
    ELSE <<n, m, q>>

\* n / m * 2^q unchanged, until n / m is 2^52 or more, or q is the least
\* exponent of a double (-1074); m52 is m * 2^52
RECURSIVE ScaleUp(_, _, _, _)
ScaleUp(n, m, m52, q) ==
    IF q - 26 >= 0 - 1074 /\ BigLess(BigTimes26(n), m52)
    THEN ScaleUp(BigTimes26(n), m, m52, q - 26)
    ELSE IF q > 0 - 1074 /\ BigLess(n, m52)
    THEN ScaleUp(BigTimes(n, 2, 0), m, m52, q - 1)
    ELSE <<n, m, q>>

IsOdd(a) == a # <<>> /\ a[Len(a)] % 2 = 1

\* n / m rounded to the nearest integer, ties to the even one
RoundHalfEven(n, m) ==
    LET d == BigDivMod(n, m)
        twice == BigTimes(d[2], 2, 0)
    IN  IF BigLess(m, twice) \/ (twice = m /\ IsOdd(d[1]))
        THEN BigTimes(d[1], 1, 1)
        ELSE d[1]

\* the pair with an odd mantissa and the same value mant * 2^q
RECURSIVE OddMantissa(_, _)
OddMantissa(mant, q) ==
    IF mant = <<>> \/ IsOdd(mant) THEN <<mant, q>>
    ELSE IF BigDivMod(mant, <<Pow13>>)[2] = <<>>
    THEN OddMantissa(BigDivMod(mant, <<Pow13>>)[1], q + 13)
    ELSE OddMantissa(BigDivMod(mant, <<2>>)[1], q + 1)

DigitMap == [c \in Digits |-> CHOOSE d \in 0..9 : ToString(d) = c]

\* the number a text of digits denotes
BigOf(s) ==
    LET n == Len(s)
        d(i) == IF i >= 1 THEN DigitMap[s[i]] ELSE 0
        last(j) == n - 4 * (((n + 3) \div 4) - j)
    IN  BigNorm([j \in 1..((n + 3) \div 4) |->
                    d(last(j) - 3) * 1000 + d(last(j) - 2) * 100
                    + d(last(j) - 1) * 10 + d(last(j))])

Pow10(k) == IF k = 0 THEN 1 ELSE IF k = 1 THEN 10 ELSE IF k = 2 THEN 100 ELSE 1000

\* the decimal digits of a number above 0, as text
DigitsOf(a) ==
    LStripOf([i \in 1..(4 * Len(a)) |->
                 ToString((a[((i - 1) \div 4) + 1] \div Pow10(3 - ((i - 1) % 4))) % 10)],
             {"0"})

\* value of a string of digits that denotes a number below 10^9
DigitsVal(s) ==
    LET a == BigOf(s)
    IN  IF a = <<>> THEN 0
        ELSE IF Len(a) = 1 THEN a[1]
        ELSE IF Len(a) = 2 THEN a[1] * Base + a[2]
        ELSE (a[1] * Base + a[2]) * Base + a[3]

\* a * 10^e
BigShift10(a, e) == BigTimes(a, Pow10(e % 4), 0) \o Zeros(e \div 4)

FloatZero(neg) == [kind |-> "num", neg |-> neg, mant |-> <<"0">>, exp2 |-> 0]

FloatInf(neg) == [kind |-> "inf", neg |-> neg, mant |-> <<"0">>, exp2 |-> 0]

FloatNan == [kind |-> "nan", neg |-> FALSE, mant |-> <<"0">>, exp2 |-> 0]

\* the double nearest to c * 10^e10 (ties to even), for c above 0 and
\* c * 10^e10 between 10^-325 and 10^309; past the largest double
\* ((2^53 - 1) * 2^971) the result is an infinity
NearestDouble(neg, c, e10) ==
    LET n == IF e10 >= 0 THEN BigShift10(c, e10) ELSE c
        m == IF e10 >= 0 THEN <<1>> ELSE BigShift10(<<1>>, 0 - e10)
        down == ScaleDown(n, m, BigTimes53(m), 0)
        s == ScaleUp(down[1], down[2], BigTimes52(down[2]), down[3])
        mant == RoundHalfEven(s[1], s[2])
        r == OddMantissa(mant, s[3])
    IN  IF mant = <<>> THEN FloatZero(neg)
        ELSE IF s[3] > 971 \/ (s[3] = 971 /\ mant = BigTimes53(<<1>>))
        THEN FloatInf(neg)
        ELSE [kind |-> "num", neg |-> neg,
              mant |-> DigitsOf(r[1]),
              exp2 |-> r[2]]

\* the double float(x) returns, for x with FloatOK(x): kind "num" is
\* (-1)^neg * mant * 2^exp2 with mant odd, written in decimal digits, or
\* zero (mant "0", exp2 0)
FloatCompute(x) ==
    LET s == RStripOf(LStripOf(x, FloatWhitespace), FloatWhitespace)
        u == Unsigned(s)
        neg == HasSign(s) /\ s[1] = "-"
        m == Mantissa(u)
        fd == OnlyDigits(FracPart(m))
        c == BigOf(OnlyDigits(IntPart(m)) \o fd)
        ex == Exponent(u)
        ed == BigOf(OnlyDigits(ex))
        ev == IF ex # <<>> /\ ex[1] = "-" THEN 0 - DigitsVal(OnlyDigits(ex))
              ELSE DigitsVal(OnlyDigits(ex))
        \* power of ten of the leading digit of c
        lead == ev - Len(fd) + Len(DigitsOf(c)) - 1
    IN  IF Lower(u) = <<"n", "a", "n">> THEN FloatNan
        ELSE IF Lower(u) \in FloatNames THEN FloatInf(neg)
        ELSE IF c = <<>> THEN FloatZero(neg)
        ELSE IF Len(DigitsOf(ed)) > 9
        THEN IF ex[1] = "-" THEN FloatZero(neg) ELSE FloatInf(neg)
        ELSE IF lead > 308 THEN FloatInf(neg)
        ELSE IF lead < 0 - 324 THEN FloatZero(neg)
        ELSE NearestDouble(neg, c, ev - Len(fd))

----------------------------------------------------------------------------
(* read_split_tables *)

SplitNames == <<"train", "val", "test">>

SplitNameSet == {SplitNames[i] : i \in 1..Len(SplitNames)}

EmptyMap == [k \in {} |-> <<>>]

\* mutant: the existence check is skipped
TableExists_Skip(t) == TRUE

\* csv_path.exists()
TableExists(t) == t.exists

\* {"stimuli", "mos"} - set(reader.fieldnames): set(None) raises TypeError
HeaderError(t) ==
    IF t.header = NoHeader THEN "TypeError"
    ELSE IF {"stimuli", "mos"} \ {t.header[i] : i \in 1..Len(t.header)} # {}
         THEN "ValueError"
         ELSE NoErr

\* csv.DictReader: row[col] is the cell under the last header column named
\* col, None when the line has fewer cells
Field(t, row, col) ==
    LET cols == {i \in 1..Len(t.header) : t.header[i] = col}
        last == CHOOSE i \in cols : \A j \in cols : j <= i
    IN  IF last <= Len(row) THEN row[last] ELSE NoneCell

\* mutant: an existing entry is kept (first write wins)
MergeEntry_First(m, key, split, rating) ==
    IF key \in DOMAIN m THEN m
    ELSE [k \in DOMAIN m \cup {key} |->
            IF k = key THEN <<split, rating>> ELSE m[k]]

\* mapping[rel_path] = (split_name, rating)
MergeEntry(m, key, split, rating) ==
    [k \in DOMAIN m \cup {key} |-> IF k = key THEN <<split, rating>> ELSE m[k]]

----------------------------------------------------------------------------
(* build_manifest and audio_duration_ms *)

AUDIO_EXTS ==
    {<<".", "w", "a", "v">>, <<".", "f", "l", "a", "c">>, <<".", "m", "p", "3">>,
     <<".", "m", "4", "a">>, <<".", "o", "g", "g">>}

\* name of the directory root resolves to
RootName == <<"r">>

\* audio.name
Name(e) == e.path[Len(e.path)]

\* PurePath.suffix: from the last dot of the name, unless that dot is the
\* first or the last character of the name
Suffix(name) ==
    LET dots == DotPositions(name)
        i == IF dots = {} THEN 0 ELSE CHOOSE d \in dots : \A o \in dots : o <= d
    IN  IF 1 < i /\ i < Len(name) THEN SubSeq(name, i, Len(name)) ELSE <<>>

\* mutant: the is_file() test is dropped
IsCandidate_AnyKind(e) == Lower(Suffix(Name(e))) \in AUDIO_EXTS

\* not (audio.suffix.lower() not in AUDIO_EXTS or not audio.is_file())
IsCandidate(e) == Lower(Suffix(Name(e))) \in AUDIO_EXTS /\ e.isFile

RECURSIVE JoinPath(_)
JoinPath(p) ==
    IF Len(p) = 1 THEN p[1]
    ELSE JoinPath(SubSeq(p, 1, Len(p) - 1)) \o <<"/">> \o p[Len(p)]

\* str(audio.relative_to(root)).replace("\\", "/")
RelKey(e) == ReplaceBackslash(JoinPath(e.path))

\* audio.parent.name
SpeakerId(e) == IF Len(e.path) >= 2 THEN e.path[Len(e.path) - 1] ELSE RootName

Min(a, b) == IF a <= b THEN a ELSE b

WAVE_FORMAT_PCM == 1

\* outcome of wave.open with getnframes() and getframerate()
WaveResult(e, fr, ra) == [err |-> e, frames |-> fr, rate |-> ra]

NoFmt == [id |-> "none"]

\* bytes a chunk takes after its header: _Chunk aligns to 2-byte boundaries
Padded(n) == n + (n % 2)

\* wave.open on the bytes of a file, described by
\*   total     the number of bytes in the file
\*   id        its first four bytes, "RIFF" or "other"
\*   riffSize  the size field of the first chunk header
\*   form      the four bytes after it, "WAVE" or "other"
\*   chunks    the chunks laid after the form type: an 8-byte header (id and
\*             declared size), then the declared size rounded up to an even
\*             number of bytes; the file may end before these parts do
\* Wave_read.initfp from the chunk at offset pos of the RIFF chunk on; reads
\* stop at the RIFF size and at the end of the file, a skip (_Chunk.seek)
\* past the RIFF size raises RuntimeError
RECURSIVE WaveScan(_, _, _, _)
WaveScan(w, k, pos, fmt) ==
    LET lim == Min(w.riffSize, w.total - 8)
        c == w.chunks[k]
        body == pos + 8
        got == Min(c.size, lim - body)
    IN  IF k > Len(w.chunks) \/ body > lim
        THEN WaveResult("wave.Error", 0, 0)
        ELSE IF c.id = "fmt "
        THEN IF got < 14 THEN WaveResult("EOFError", 0, 0)
             ELSE IF c.tag # WAVE_FORMAT_PCM THEN WaveResult("wave.Error", 0, 0)
             ELSE IF got < 16 THEN WaveResult("EOFError", 0, 0)
             ELSE IF (c.bits + 7) \div 8 = 0 \/ c.channels = 0
             THEN WaveResult("wave.Error", 0, 0)
             ELSE IF body + Padded(c.size) > w.riffSize
             THEN WaveResult("RuntimeError", 0, 0)
             ELSE WaveScan(w, k + 1, body + Padded(c.size), c)
        ELSE IF c.id = "data"
        THEN IF fmt = NoFmt THEN WaveResult("wave.Error", 0, 0)
             ELSE WaveResult(NoErr,
                             c.size \div (fmt.channels * ((fmt.bits + 7) \div 8)),
                             fmt.rate)
        ELSE IF body + Padded(c.size) > w.riffSize
             THEN WaveResult("RuntimeError", 0, 0)
             ELSE WaveScan(w, k + 1, body + Padded(c.size), fmt)

\* wave.open(path, "rb"), w.getnframes(), w.getframerate()
WaveOpen(w) ==
    IF w.total < 8 THEN WaveResult("EOFError", 0, 0)
    ELSE IF w.id # "RIFF" THEN WaveResult("wave.Error", 0, 0)
    ELSE IF Min(w.riffSize, w.total - 8) < 4 \/ w.form # "WAVE"
    THEN WaveResult("wave.Error", 0, 0)
    ELSE WaveScan(w, 1, 4, NoFmt)

\* the exception wave.open raises, or NoErr
WaveOpenError(w) == WaveOpen(w).err

IsWavName(e) == Lower(Suffix(Name(e))) = <<".", "w", "a", "v">>

\* audio_duration_ms: the exception it raises for this file, or NoErr
ProbeError(e, sf) ==
    IF IsWavName(e)
    THEN IF WaveOpenError(e.wav) # NoErr THEN WaveOpenError(e.wav)
         ELSE IF WaveOpen(e.wav).rate = 0 THEN "ZeroDivisionError" ELSE NoErr
    ELSE IF ~sf THEN "RuntimeError"
         ELSE IF ~e.decodable THEN "LibsndfileError" ELSE NoErr

\* frame count and rate of the file, from wave or from soundfile
AudioFrames(e) == IF IsWavName(e) THEN WaveOpen(e.wav).frames ELSE e.frames

AudioRate(e) == IF IsWavName(e) THEN WaveOpen(e.wav).rate ELSE e.rate

RECURSIVE GCD(_, _)
GCD(a, b) == IF b = 0 THEN a ELSE GCD(b, a % b)

\* frames * 1000.0 / sr, as the fraction in lowest terms (the float is the
\* double nearest to it)
DurationMs(e) ==
    LET g == GCD(AudioFrames(e), AudioRate(e))
        f == AudioFrames(e) \div g
        r == AudioRate(e) \div g
        h == GCD(1000, r)
    IN  [num |-> f * (1000 \div h), den |-> r \div h]

\* mutant: the split is not taken from the lookup
MakeRecord_FixedSplit(e, m) ==
    [file_path |-> RelKey(e), speaker_id |-> SpeakerId(e),
     duration_ms |-> DurationMs(e), split |-> SplitNames[1],
     rating |-> m[RelKey(e)][2]]

\* mutant: file_path and speaker_id are exchanged
MakeRecord_Swapped(e, m) ==
    [file_path |-> SpeakerId(e), speaker_id |-> RelKey(e),
     duration_ms |-> DurationMs(e), split |-> m[RelKey(e)][1],
     rating |-> m[RelKey(e)][2]]

\* the dict yielded for a matched file
MakeRecord(e, m) ==
    [file_path |-> RelKey(e), speaker_id |-> SpeakerId(e),
     duration_ms |-> DurationMs(e), split |-> m[RelKey(e)][1],
     rating |-> m[RelKey(e)][2]]

\* mutant: the warning is not printed
Warn_Silent(log, rel, i) == log

\* print(f"... {rel_path} not in split tables - skipped", file=sys.stderr)
Warn(log, rel, i) == Append(log, [kind |-> "warn", path |-> rel, src |-> i])

\* mutant: the line is not written
FileWrite_Drop(f, rec) == f

\* f.write(json.dumps(row, ensure_ascii=False) + "\n")
FileWrite(f, rec) == Append(f, rec)

\* mutant: the counter is not advanced
CountLine_Stuck(n) == n

\* n_written += 1
CountLine(n) == n + 1

----------------------------------------------------------------------------
(* Inputs: the files the run finds *)

S_a1 == <<"a", "/", "1", ".", "w", "a", "v">>
S_a1bs == <<"\n", " ", "a", "\\", "1", ".", "w", "a", "v", "\r">>
S_a0 == <<"a", "/", "0", ".", "w", "a", "v">>
S_up == <<"b", "\\", "c", "/", "2", ".", "W", "A", "V">>
S_flac == <<"a", "/", "3", ".", "f", "l", "a", "c">>
S_c == <<"c", ".", "w", "a", "v">>
S_aj == <<"a", "/", "j", ".", "w", "a", "v">>
S_av == <<"a", "/", "v", ".", "w", "a", "v">>

M_45 == <<"4", ".", "5", "0">>
M_2 == <<"\t", "+", "2", "_", "0", "e", "-", "1">>
M_3 == <<"3", ".">>
M_5 == <<"5">>
M_x == <<"x">>
M_big == <<"1", "e", "4", "0", "0">>

\* the doubles of the mos cells of the inputs, computed once
MosCells == {M_45, M_2, M_3, M_5, M_x, M_big}

FloatTable == [x \in {c \in MosCells : FloatOK(c)} |-> FloatCompute(x)]

\* the value float(x) returns
FloatValue(x) == IF x \in DOMAIN FloatTable THEN FloatTable[x] ELSE FloatCompute(x)

\* a CSV line under a header: the stimuli and mos cells, filler elsewhere;
\* a third component makes the line short (its first cell only) or blank
Layout(header, pair) ==
    LET full == [i \in 1..Len(header) |->
                    IF header[i] = "stimuli" THEN pair[1]
                    ELSE IF header[i] = "mos" THEN pair[2] ELSE <<"7">>]
    IN  IF Len(pair) = 2 THEN full
        ELSE IF pair[3] = "short" THEN SubSeq(full, 1, 1) ELSE <<>>

HeaderOf(status) ==
    CASE status = "ok" -> <<"stimuli", "mos">>
      [] status = "extra" -> <<"id", "mos", "stimuli">>
      [] status = "nomos" -> <<"stimuli", "id">>
      [] status = "nostim" -> <<"mos">>
      [] OTHER -> NoHeader

\* absent: no file; empty: a zero-byte file, so no header line
MkTable(status, pairs) ==
    [exists |-> status # "absent",
     header |-> HeaderOf(status),
     rows |-> IF status \in {"absent", "empty"} THEN <<>>
              ELSE [i \in 1..Len(pairs) |-> Layout(HeaderOf(status), pairs[i])]]

Statuses == {"absent", "empty", "nomos", "nostim", "ok", "extra"}

RowChoices ==
    {<<S_a1, M_45>>, <<S_a1bs, M_2>>, <<S_up, M_big>>, <<S_c, M_x>>,
     <<S_a1, M_5, "short">>, <<S_a1, M_5, "blank">>}

BSeq(S, n) == UNION {[1..k -> S] : k \in 0..n}

RECURSIVE RowsFor(_, _)
RowsFor(rs, name) ==
    IF rs = <<>> THEN <<>>
    ELSE IF Head(rs)[1] = name THEN <<Head(rs)[2]>> \o RowsFor(Tail(rs), name)
         ELSE RowsFor(Tail(rs), name)

WavFile(n, i, r, f, c) ==
    [total |-> n, id |-> i, riffSize |-> r, form |-> f, chunks |-> c]

FmtChunk(size, tag, channels, rate, bits) ==
    [id |-> "fmt ", size |-> size, tag |-> tag, channels |-> channels,
     rate |-> rate, bits |-> bits]

DataChunk(size) == [id |-> "data", size |-> size]

OtherChunk(size) == [id |-> "LIST", size |-> size]

\* a canonical 44-byte header and n bytes of mono 16-bit samples
WavPCM(n, rate) ==
    WavFile(44 + n, "RIFF", 36 + n, "WAVE",
            <<FmtChunk(16, WAVE_FORMAT_PCM, 1, rate, 16), DataChunk(n)>>)

\* a list chunk of odd size, an 18-byte fmt chunk (stereo, 8 bits, 3 Hz), a
\* second list chunk, 3 bytes of samples
WavListed ==
    WavFile(74, "RIFF", 66, "WAVE",
            <<OtherChunk(5), FmtChunk(18, WAVE_FORMAT_PCM, 2, 3, 8),
              OtherChunk(0), DataChunk(3)>>)

\* no data chunk
WavNoData ==
    WavFile(44, "RIFF", 36, "WAVE",
            <<OtherChunk(0), FmtChunk(16, WAVE_FORMAT_PCM, 1, 16000, 16)>>)

\* a list chunk that declares more bytes than the RIFF chunk holds
WavOverrun ==
    WavFile(52, "RIFF", 44, "WAVE",
            <<OtherChunk(100), FmtChunk(16, WAVE_FORMAT_PCM, 1, 16000, 16),
              DataChunk(0)>>)

\* a zero-byte file
WavEmpty == WavFile(0, "other", 0, "other", <<>>)

\* a file of another format
NotWav == WavFile(64, "other", 0, "other", <<>>)

\* a regular file: its path, its bytes as wave.open reads them, whether
\* soundfile can open it, and the frame count and rate soundfile reports
FileEntry(p, w, d, fr, ra) ==
    [path |-> p, isFile |-> TRUE, wav |-> w, decodable |-> d, frames |-> fr,
     rate |-> ra]

E_a1 == FileEntry(<< <<"a">>, <<"1", ".", "w", "a", "v">> >>, WavPCM(32000, 16000), FALSE, 0, 0)
E_bs == FileEntry(<< <<"a", "\\", "1", ".", "w", "a", "v">> >>, WavPCM(16000, 16000), FALSE, 0, 0)
E_up == FileEntry(<< <<"b">>, <<"c">>, <<"2", ".", "W", "A", "V">> >>, WavListed, FALSE, 0, 0)
E_txt == FileEntry(<< <<"a">>, <<"n", ".", "t", "x", "t">> >>, NotWav, FALSE, 0, 0)
E_flac == FileEntry(<< <<"a">>, <<"3", ".", "f", "l", "a", "c">> >>, NotWav, TRUE, 44100, 44100)
E_ogg == FileEntry(<< <<"x">>, <<"9", ".", "o", "g", "g">> >>, NotWav, TRUE, 100, 1000)
E_a0 == FileEntry(<< <<"a">>, <<"0", ".", "w", "a", "v">> >>, WavEmpty, FALSE, 0, 0)
E_aj == FileEntry(<< <<"a">>, <<"j", ".", "w", "a", "v">> >>, WavNoData, FALSE, 0, 0)
E_av == FileEntry(<< <<"a">>, <<"v", ".", "w", "a", "v">> >>, WavOverrun, FALSE, 0, 0)
E_hid == FileEntry(<< <<".", "w", "a", "v">> >>, WavPCM(200, 1000), FALSE, 0, 0)
E_dir ==
    [path |-> << <<"d", ".", "w", "a", "v">> >>, isFile |-> FALSE, wav |-> WavEmpty,
     decodable |-> FALSE, frames |-> 0, rate |-> 0]

Entries == {E_a1, E_bs, E_up, E_txt, E_flac, E_ogg, E_a0, E_aj, E_av, E_hid, E_dir}

\* listings of a tree: no entry twice
Trees(n) ==
    {t \in BSeq(Entries, n) : \A i, j \in 1..Len(t) : i # j => t[i] # t[j]}

TablesOf(a, b, c) == [s \in SplitNameSet |->
    IF s = "train" THEN a ELSE IF s = "val" THEN b ELSE c]

\* split directories whose tables are read to the end
TableConfigs ==
    {TablesOf(MkTable("ok", << <<S_a1, M_45>>, <<S_a0, M_3>> >>),
              MkTable("ok", << <<S_up, M_2>>, <<S_aj, M_5>> >>),
              MkTable("extra", << <<S_a1bs, M_2>>, <<S_flac, M_big>>, <<S_av, M_5>> >>)),
     TablesOf(MkTable("ok", <<>>), MkTable("extra", <<>>), MkTable("ok", <<>>)),
     TablesOf(MkTable("ok", << <<S_a1, M_45>> >>),
              MkTable("absent", <<>>),
              MkTable("ok", <<>>)),
     TablesOf(MkTable("ok", << <<S_a1, M_45>> >>),
              MkTable("ok", <<>>),
              MkTable("ok", << <<S_c, M_x>> >>))}

\* split directories with a table that cannot be read: a zero-byte table, a
\* table without the mos column, lines with fewer cells than the header
BrokenConfigs ==
    {TablesOf(MkTable("ok", << <<S_a1, M_45>> >>),
              MkTable("empty", <<>>),
              MkTable("ok", <<>>)),
     TablesOf(MkTable("ok", << <<S_a1, M_45>> >>),
              MkTable("ok", << <<S_up, M_2>> >>),
              MkTable("nomos", << <<S_a0, M_3>> >>)),
     TablesOf(MkTable("nostim", << <<S_a1, M_45>> >>),
              MkTable("ok", <<>>),
              MkTable("ok", <<>>)),
     TablesOf(MkTable("ok", << <<S_a1, M_45>>, <<S_a1, M_5, "blank">>,
                               <<S_a0, M_5, "short">> >>),
              MkTable("ok", <<>>),
              MkTable("ok", <<>>)),
     TablesOf(MkTable("ok", <<>>),
              MkTable("extra", << <<S_up, M_2>>, <<S_a1, M_5, "short">> >>),
              MkTable("ok", <<>>))}

StaleLine ==
    [file_path |-> <<"o", "l", "d">>, speaker_id |-> <<"o">>, duration_ms |-> [num |-> 1, den |-> 1], split |-> "train",
     rating |-> [kind |-> "num", neg |-> FALSE, mant |-> <<"1">>, exp2 |-> 0]]

Start ==
    /\ pc = "exists"
    /\ tIdx = 1
    /\ rIdx = 1
    /\ mapping = EmptyMap
    /\ merged = {}
    /\ idx = 1
    /\ outDir = FALSE
    /\ opened = FALSE
    /\ outFile = out0
    /\ outSrc = <<>>
    /\ nWritten = 0
    /\ stderr = <<>>
    /\ probed = {}
    /\ err = NoErr

\* varied audio trees, a few split directories, an output left by an earlier
\* run; under a table that cannot be read the tree is never walked
Init ==
    /\ \/ tables \in TableConfigs /\ tree \in Trees(MaxFiles)
       \/ tables \in BrokenConfigs /\ tree \in Trees(1)
    /\ sfInstalled \in BOOLEAN
    /\ out0 = <<StaleLine>>
    /\ Start

\* varied split directories, one audio tree
InitRead ==
    /\ \E st \in [SplitNameSet -> Statuses] :
         \E rs \in BSeq(SplitNameSet \X RowChoices, MaxRows) :
            /\ \A i \in 1..Len(rs) : st[rs[i][1]] \in {"ok", "extra"}
            /\ tables = [s \in SplitNameSet |->
                  MkTable(st[s], IF st[s] \in {"ok", "extra"} THEN RowsFor(rs, s)
                                 ELSE << <<S_a1, M_5>> >>)]
    /\ tree = <<E_txt, E_ogg, E_a1>>
    /\ sfInstalled = TRUE
    /\ out0 \in {Absent, <<StaleLine>>}
    /\ Start

----------------------------------------------------------------------------
(* The run *)

CurTable == tables[SplitNames[tIdx]]

\* an uncaught exception ends main
Abort(e) ==
    /\ pc' = "aborted"
    /\ err' = e

\* read_split_tables: csv_path.exists()
CheckExists ==
    /\ pc = "exists"
    /\ IF ~TableExists(CurTable)
       THEN Abort("FileNotFoundError")
       ELSE pc' = "header" /\ err' = err
    /\ UNCHANGED <<inputs, tIdx, rIdx, mapping, merged, idx, outDir, opened, outFile,
                   outSrc, nWritten, stderr, probed>>

\* read_split_tables: the file is opened, a new reader is made and its
\* fieldnames are tested
CheckHeader ==
    /\ pc = "header"
    /\ rIdx' = 1
    /\ IF HeaderError(CurTable) # NoErr
       THEN Abort(HeaderError(CurTable))
       ELSE pc' = "rows" /\ err' = err
    /\ UNCHANGED <<inputs, tIdx, mapping, merged, idx, outDir, opened, outFile,
                   outSrc, nWritten, stderr, probed>>

\* read_split_tables: one iteration of `for row in reader`; DictReader
\* passes over blank lines
MergeRow ==
    /\ pc = "rows"
    /\ rIdx <= Len(CurTable.rows)
    /\ LET row == CurTable.rows[rIdx]
           stimuli == Field(CurTable, row, "stimuli")
           mos == Field(CurTable, row, "mos")
       IN  IF row = <<>>
           THEN rIdx' = rIdx + 1 /\ UNCHANGED <<pc, err, mapping, merged>>
           ELSE IF stimuli = NoneCell
           THEN Abort("AttributeError") /\ UNCHANGED <<mapping, merged, rIdx>>
           ELSE IF mos = NoneCell
           THEN Abort("TypeError") /\ UNCHANGED <<mapping, merged, rIdx>>
           ELSE IF ~FloatOK(mos)
           THEN Abort("ValueError") /\ UNCHANGED <<mapping, merged, rIdx>>
           ELSE /\ mapping' = MergeEntry(mapping, RowKey(stimuli), SplitNames[tIdx],
                                         FloatValue(mos))
                /\ merged' = merged \cup {<<tIdx, rIdx>>}
                /\ rIdx' = rIdx + 1
                /\ UNCHANGED <<pc, err>>
    /\ UNCHANGED <<inputs, tIdx, idx, outDir, opened, outFile, outSrc,
                   nWritten, stderr, probed>>

\* read_split_tables: the rows of a table are exhausted; next table or return
EndTable ==
    /\ pc = "rows"
    /\ rIdx > Len(CurTable.rows)
    /\ IF tIdx < Len(SplitNames)
       THEN tIdx' = tIdx + 1 /\ pc' = "exists"
       ELSE tIdx' = tIdx /\ pc' = "open"
    /\ UNCHANGED <<inputs, rIdx, mapping, merged, idx, outDir, opened, outFile, outSrc,
                   nWritten, stderr, probed, err>>

\* main: mkdir of the parent, n_written = 0, open(args.out, "w")
OpenOutput ==
    /\ pc = "open"
    /\ outDir' = TRUE
    /\ opened' = TRUE
    /\ outFile' = <<>>
    /\ nWritten' = 0
    /\ pc' = "walk"
    /\ UNCHANGED <<inputs, tIdx, rIdx, mapping, merged, idx, outSrc, stderr, probed, err>>

\* one iteration of `for audio in root.rglob("*")` with the write in main
VisitEntry ==
    /\ pc = "walk"
    /\ idx <= Len(tree)
    /\ LET audio == tree[idx]
           rel_path == RelKey(audio)
       IN  IF ~IsCandidate(audio)
           THEN /\ idx' = idx + 1
                /\ UNCHANGED <<pc, err, outFile, outSrc, nWritten, stderr, probed>>
           ELSE IF rel_path \notin DOMAIN mapping
           THEN /\ stderr' = Warn(stderr, rel_path, idx)
                /\ idx' = idx + 1
                /\ UNCHANGED <<pc, err, outFile, outSrc, nWritten, probed>>
           ELSE /\ probed' = probed \cup {idx}
                /\ IF ProbeError(audio, sfInstalled) # NoErr
                   THEN /\ Abort(ProbeError(audio, sfInstalled))
                        /\ UNCHANGED <<idx, outFile, outSrc, nWritten, stderr>>
                   ELSE /\ outFile' = FileWrite(outFile, MakeRecord(audio, mapping))
                        /\ outSrc' = Append(outSrc, idx)
                        /\ nWritten' = CountLine(nWritten)
                        /\ idx' = idx + 1
                        /\ UNCHANGED <<pc, err, stderr>>
    /\ UNCHANGED <<inputs, tIdx, rIdx, mapping, merged, outDir, opened>>

\* main: the tree is exhausted, the file is closed, the count is printed
Finish ==
    /\ pc = "walk"
    /\ idx > Len(tree)
    /\ stderr' = Append(stderr, [kind |-> "wrote", n |-> nWritten])
    /\ pc' = "done"
    /\ UNCHANGED <<inputs, tIdx, rIdx, mapping, merged, idx, outDir, opened, outFile,
                   outSrc, nWritten, probed, err>>

Next ==
    \/ CheckExists
    \/ CheckHeader
    \/ MergeRow
    \/ EndTable
    \/ OpenOutput
    \/ VisitEntry
    \/ Finish

Spec == Init /\ [][Next]_vars

SpecRead == InitRead /\ [][Next]_vars

TypeOK ==
    /\ \A p \in merged :
          p[1] \in 1..Len(SplitNames) /\ p[2] \in 1..Len(tables[SplitNames[p[1]]].rows)
    /\ pc \in {"exists", "header", "rows", "open", "walk", "done", "aborted"}
    /\ tIdx \in 1..Len(SplitNames)
    /\ idx \in 1..(Len(tree) + 1)
    /\ (pc = "aborted") = (err # NoErr)

----------------------------------------------------------------------------
(* Vocabulary of the properties *)

\* read_split_tables has returned
ReadDone == pc \in {"open", "walk", "done"} \/ (pc = "aborted" /\ opened)

\* positions <<table, row>> of the data rows (blank lines are none)
RowPositions ==
    UNION {{<<t, r>> : r \in {r \in 1..Len(tables[SplitNames[t]].rows) :
                                    /\ tables[SplitNames[t]].exists
                                    /\ tables[SplitNames[t]].header # NoHeader
                                    /\ tables[SplitNames[t]].rows[r] # <<>>}} :
           t \in 1..Len(SplitNames)}

CellAt(p, col) ==
    Field(tables[SplitNames[p[1]]], tables[SplitNames[p[1]]].rows[p[2]], col)

KeyAt(p) == Normalize(CellAt(p, "stimuli"))

NotAfter(p, q) == p[1] < q[1] \/ (p[1] = q[1] /\ p[2] <= q[2])

LastPosition(k) ==
    CHOOSE p \in RowPositions :
        /\ KeyAt(p) = k
        /\ \A q \in RowPositions : KeyAt(q) = k => NotAfter(q, p)

MissingTables == {i \in 1..Len(SplitNames) : ~tables[SplitNames[i]].exists}

FirstMissing == CHOOSE i \in MissingTables : \A j \in MissingTables : i <= j

SupportedExtensions ==
    {<<".", "w", "a", "v">>, <<".", "f", "l", "a", "c">>, <<".", "m", "p", "3">>,
     <<".", "m", "4", "a">>, <<".", "o", "g", "g">>}

\* a regular file whose extension, case aside, is a supported one
Eligible(e) ==
    /\ e.isFile = TRUE
    /\ \E x \in SupportedExtensions : Lower(Suffix(Name(e))) = x

WarningsOf(i) == {j \in 1..Len(stderr) : stderr[j].kind = "warn" /\ stderr[j].src = i}

RecordsOf(i) == {j \in 1..Len(outSrc) : outSrc[j] = i}

\* the entry produced a record, a warning or a duration probe
Processed(i) == RecordsOf(i) # {} \/ WarningsOf(i) # {} \/ i \in probed

\* the entry has been enumerated by the loop of build_manifest
Visited(i) == i < idx \/ (i = idx /\ pc = "aborted" /\ opened)

Matched == {i \in 1..Len(tree) : Eligible(tree[i]) /\ RelKey(tree[i]) \in DOMAIN mapping}

HasBackslash(e) == \E c \in 1..Len(e.path) : \E k \in 1..Len(e.path[c]) : e.path[c][k] = "\\"

RECURSIVE ExpectedLines(_)
ExpectedLines(k) ==
    IF k = 0 THEN <<>>
    ELSE IF k \in Matched
         THEN Append(ExpectedLines(k - 1), MakeRecord(tree[k], mapping))
         ELSE ExpectedLines(k - 1)

----------------------------------------------------------------------------
(* Properties *)

\* C1: every record written by main has a file_path that is a key of the
\* lookup of the run, and carries the split and rating stored under that key.
C1_RecordsJoinLookup ==
    opened =>
        \A i \in 1..Len(outFile) :
            /\ outFile[i].file_path \in DOMAIN mapping
            /\ outFile[i].split = mapping[outFile[i].file_path][1]
            /\ outFile[i].rating = mapping[outFile[i].file_path][2]

C1_Witness ==
    /\ opened
    /\ Len(outFile) >= 2
    /\ \E i \in 1..Len(outFile) : outFile[i].split = "test"

\* C2 as stated: with a required table absent, the run never completes, never
\* touches the output or its directory, and when it aborts the error is the
\* missing-file error.
C2_Original ==
    MissingTables # {} =>
        /\ pc # "done"
        /\ ~opened /\ ~outDir /\ outFile = out0
        /\ (pc = "aborted" => err = "FileNotFoundError")

\* C2 amended: with a required table absent, the run never completes and never
\* touches the output or its directory; it aborts with the missing-file error
\* at the first absent table, unless a table processed before it fails first
\* (header, columns, short line or rating error), which also happens before
\* any output.
C2_AbortBeforeOutput ==
    MissingTables # {} =>
        /\ pc # "done"
        /\ ~opened /\ ~outDir /\ outFile = out0
        /\ tIdx <= FirstMissing
        /\ (pc = "aborted" =>
              \/ tIdx = FirstMissing /\ err = "FileNotFoundError"
              \/ tIdx < FirstMissing
                 /\ err \in {"ValueError", "TypeError", "AttributeError"})

C2_Witness ==
    /\ pc = "aborted"
    /\ err = "FileNotFoundError"
    /\ tIdx = 3
    /\ DOMAIN mapping # {}
    /\ out0 # Absent
    /\ outFile = out0

\* C3 as stated: whenever the run has aborted, no record has been written to
\* the output file.
C3_Original == (pc = "aborted" /\ opened) => outFile = <<>>

\* exceptions of read_split_tables: a missing table, set(None), a missing
\* column or a cell float() rejects, None.strip(), float(None)
ReadErrors == {"FileNotFoundError", "TypeError", "ValueError", "AttributeError"}

\* exceptions of audio_duration_ms: wave.open, the division by the rate,
\* the import of soundfile, soundfile on a file it cannot decode
ProbeErrors ==
    {"EOFError", "wave.Error", "RuntimeError", "ZeroDivisionError", "LibsndfileError"}

\* C3 amended: an aborted run prints no completion message and processes
\* nothing further; an error of read_split_tables leaves the output untouched,
\* and a duration-probe failure leaves in the output exactly the records of
\* the matched files enumerated before the failing one.
C3_AbortKeepsPrefix ==
    pc = "aborted" =>
        /\ \A j \in 1..Len(stderr) : stderr[j].kind # "wrote"
        /\ IF ~opened
           THEN /\ outFile = out0
                /\ err \in ReadErrors
                /\ probed = {}
           ELSE /\ idx \in Matched
                /\ idx \in probed
                /\ err \in ProbeErrors
                /\ outFile = ExpectedLines(idx - 1)
                /\ nWritten = Len(outFile)

C3_Witness ==
    /\ pc = "aborted"
    /\ opened
    /\ Len(outFile) >= 1
    /\ idx >= 2

\* C4: an enumerated audio file whose key is not in the lookup yields no
\* record, exactly one warning naming its path (on stderr, the output holds
\* records of matched files only), no duration probe, and the run goes on.
C4_UnmatchedSkipped ==
    /\ \A i \in 1..Len(tree) :
        (Visited(i) /\ Eligible(tree[i]) /\ RelKey(tree[i]) \notin DOMAIN mapping) =>
            /\ RecordsOf(i) = {}
            /\ Cardinality(WarningsOf(i)) = 1
            /\ \A j \in WarningsOf(i) : stderr[j].path = RelKey(tree[i])
            /\ i \notin probed
            /\ i < idx
    /\ opened => \A j \in 1..Len(outSrc) : outSrc[j] \in Matched
    /\ opened => Len(outFile) = Len(outSrc)

C4_Witness ==
    /\ pc = "done"
    /\ \E i \in 1..Len(tree) : WarningsOf(i) # {} /\ i < Len(tree)
    /\ Len(outFile) >= 1

\* C5: the lookup is the last-write-wins merge of the tables in the order
\* train, val, test and of the rows in file order: each key holds the table
\* name and rating of the last row carrying it, and nothing is reported.
C5_LastWriteWins ==
    ReadDone =>
        /\ merged = RowPositions
        /\ \A p \in RowPositions : KeyAt(p) \in DOMAIN mapping
        /\ \A k \in DOMAIN mapping :
              /\ \E p \in RowPositions : KeyAt(p) = k
              /\ mapping[k] = <<SplitNames[LastPosition(k)[1]],
                                FloatValue(CellAt(LastPosition(k), "mos"))>>
        /\ (pc = "open" => stderr = <<>> /\ err = NoErr)

C5_Witness ==
    /\ pc = "open"
    /\ \E p, q \in RowPositions :
          /\ p[1] = 1 /\ q[1] = 3
          /\ KeyAt(p) = KeyAt(q)
          /\ CellAt(p, "stimuli") # CellAt(q, "stimuli")
          /\ mapping[KeyAt(p)][1] = "test"
          /\ mapping[KeyAt(p)][2] # FloatValue(CellAt(p, "mos"))

\* C6: the lookup has as many entries as there are distinct normalized keys,
\* at most the number of data rows, and each entry's split is train, val or
\* test and names a table holding a row with that key.
C6_LookupSize ==
    ReadDone =>
        /\ Cardinality(DOMAIN mapping) <= Cardinality(RowPositions)
        /\ Cardinality(DOMAIN mapping) = Cardinality({KeyAt(p) : p \in RowPositions})
        /\ \A k \in DOMAIN mapping :
              /\ mapping[k][1] \in {"train", "val", "test"}
              /\ \E p \in RowPositions :
                    SplitNames[p[1]] = mapping[k][1] /\ KeyAt(p) = k

C6_Witness ==
    /\ pc = "open"
    /\ Cardinality(RowPositions) = 2
    /\ Cardinality(DOMAIN mapping) = 1

\* C7 as stated: only regular files with a supported extension are
\* processed, and once build_manifest has ended every such file of the tree
\* has been processed.
C7_Original ==
    /\ \A i \in 1..Len(tree) : Processed(i) => Eligible(tree[i])
    /\ (opened /\ pc \in {"done", "aborted"}) =>
          \A i \in 1..Len(tree) : Eligible(tree[i]) => Processed(i)

\* C7 amended: build_manifest processes an enumerated entry exactly when it
\* is a regular file with a supported extension, compared without case; other
\* files and all directories yield no record, no warning and no probe. A run
\* that completes has enumerated every entry; a failing duration probe ends
\* the walk at its file, and no later entry is processed.
C7_OnlyAudioFiles ==
    /\ \A i \in 1..Len(tree) :
          /\ Processed(i) => Eligible(tree[i])
          /\ Visited(i) => (Processed(i) <=> Eligible(tree[i]))
    /\ pc = "done" => \A i \in 1..Len(tree) : Visited(i)
    /\ (pc = "aborted" /\ opened) =>
          /\ idx \in probed
          /\ \A i \in 1..Len(tree) : Visited(i) <=> i <= idx
          /\ \A i \in (idx + 1)..Len(tree) : ~Processed(i)

\* a directory named like an audio file is passed over, the probe of the
\* next file fails, and a supported file listed after it is never processed
C7_Witness ==
    /\ pc = "aborted"
    /\ opened
    /\ \E i \in 1..(idx - 1) :
          ~tree[i].isFile /\ Suffix(Name(tree[i])) \in SupportedExtensions
    /\ \E i \in (idx + 1)..Len(tree) : Eligible(tree[i]) /\ ~Processed(i)

\* C8: a table without a stimuli or mos column, a table without any header
\* line included, fails with the ValueError about the columns before any of
\* its rows is merged; a table with both columns is accepted.
C8_SchemaError ==
    \A t \in 1..Len(SplitNames) :
        LET T == tables[SplitNames[t]]
            lacks == T.header = NoHeader
                     \/ ~({"stimuli", "mos"} \subseteq {T.header[i] : i \in 1..Len(T.header)})
        IN  /\ (T.exists /\ lacks) => \A p \in merged : p[1] # t
            /\ (T.exists /\ lacks /\ tIdx = t /\ pc \notin {"exists", "header"}) =>
                  /\ pc = "aborted"
                  /\ err = "ValueError"
            /\ (T.exists /\ ~lacks /\ tIdx = t /\ pc = "aborted") =>
                  /\ rIdx <= Len(T.rows)
                  /\ err \in {"ValueError", "TypeError", "AttributeError"}

\* C9: on normal completion the output holds one record per matched file, in
\* traversal order, the printed count is their number, and a run without any
\* matched file completes with an empty output and a count of 0.
C9_CountMatches ==
    /\ pc = "done" =>
          /\ err = NoErr
          /\ Len(outFile) = Cardinality(Matched)
          /\ stderr[Len(stderr)] = [kind |-> "wrote", n |-> Cardinality(Matched)]
          /\ {outSrc[j] : j \in 1..Len(outSrc)} = Matched
          /\ \A j, k \in 1..Len(outSrc) : j < k => outSrc[j] < outSrc[k]
          /\ \A j \in 1..Len(outFile) : outFile[j].file_path = RelKey(tree[outSrc[j]])
    /\ (opened /\ Matched = {}) => pc # "aborted" /\ outFile = <<>> /\ nWritten = 0

C9_Witness ==
    /\ pc = "done"
    /\ Cardinality(Matched) >= 2
    /\ Len(tree) > Cardinality(Matched)

\* C10 as stated: no two records of a run share a file_path.
C10_Original ==
    opened =>
        \A i, j \in 1..Len(outFile) :
            i # j => outFile[i].file_path # outFile[j].file_path

\* C10 amended: two records of a run share a file_path only when the relative
\* path of one of the two files contains a backslash; files without a
\* backslash in their names always get distinct file_paths.
C10_DistinctUnlessBackslash ==
    opened =>
        \A i, j \in 1..Len(outFile) :
            (i # j /\ outFile[i].file_path = outFile[j].file_path) =>
                (HasBackslash(tree[outSrc[i]]) \/ HasBackslash(tree[outSrc[j]]))

C10_Witness ==
    /\ pc = "done"
    /\ Len(outFile) = 3
    /\ \E i, j \in 1..Len(outFile) :
          i # j /\ outFile[i].file_path = outFile[j].file_path
    /\ \E i, j \in 1..Len(outFile) :
          /\ outFile[i].file_path # outFile[j].file_path
          /\ ~HasBackslash(tree[outSrc[i]]) /\ ~HasBackslash(tree[outSrc[j]])

====
